---- MODULE Spec2Model ----
(***************************************************************************)
(* The catalogue builder of assisterr-research: the validation run         *)
(* (build/validate-reports.py) and the index generator                     *)
(* (build/generate-index.py), as state machines over the metadata file,    *)
(* the schema, the artifacts directory and the output document; then the   *)
(* two one-off tools, the migration (scripts/migrate.py) over the events   *)
(* of the legacy index document and the style injector                     *)
(* (add-mobile-styles.py) over the contents of the artifacts.              *)
(*                                                                         *)
(* A report record is a Python dict: here a function whose domain is the   *)
(* set of keys the record has, so that an absent key and an empty value    *)
(* are different records, as they are for dict.get.  Every field value is  *)
(* a string, except featured (a boolean).  The date is the one string the  *)
(* code indexes and orders, so it is a sequence of characters; the other   *)
(* strings are only compared for equality and are TLA+ strings.  The       *)
(* migration searches, splits and rewrites the strings it reads (hrefs,    *)
(* class attributes, text), so there they are sequences of characters too. *)
(***************************************************************************)
EXTENDS Integers, Sequences, FiniteSets, TLC

VARIABLES
    metaState,    \* config/reports.json: "absent", "badjson" or "ok"
    metaDoc,      \* the document the file holds when metaState = "ok"
    schemaState,  \* "nolib" (jsonschema not importable), "nofile", "pass", "fail"
    dirExists,    \* whether the reports/ directory exists
    disk,         \* the names of the files in reports/
    pc,           \* the position of main()
    data,         \* the loaded document (its records are mutated in place)
    errors,       \* validate-reports.py: the global errors list
    warnings,     \* validate-reports.py: the global warnings list
    reported,     \* the errors the summary has printed
    exitCode,     \* the process's exit status once pc = "exit"
    featured,     \* generate_index: featured_reports, as positions in data.reports
    byCategory,   \* generate_index: reports_by_category, in iteration order
    byDate,       \* generate_index: reports_by_date, in iteration order
    html,         \* generate_index's return value (the template's context)
    indexWrites,  \* what has been written to index.html, oldest first
    indexEvents,  \* migrate.py: the legacy index.html, as the events feed() delivers
    fed,          \* migrate.py: how many of these events the parser has handled
    parser,       \* migrate.py: the fields of the ReportCardParser
    unique_reports, \* migrate.py: parse_index_html's list, later sorted in place
    metadata,     \* migrate.py: the reports written to config/reports.json
    site,         \* add-mobile-styles.py: file name -> content of the HTML files
    snapshots,    \* the contents of site at the start and after each update_reports
    returned      \* the return values of successive get_featured_reports calls

vars == <<metaState, metaDoc, schemaState, dirExists, disk, pc, data, errors,
          warnings, reported, exitCode, featured, byCategory, byDate, html,
          indexWrites, indexEvents, fed, parser, unique_reports, metadata,
          site, snapshots, returned>>

envVars == <<metaState, metaDoc, schemaState, dirExists, disk>>
valVars == <<errors, warnings, reported>>
idxVars == <<featured, byCategory, byDate, html, indexWrites>>
migVars == <<indexEvents, fed, parser, unique_reports, metadata>>
cssVars == <<site, snapshots>>
\* What the validation run and the index generator never touch.
toolVars == <<migVars, cssVars, returned>>

----------------------------------------------------------------------------
(* Bounds of the model. *)

MaxFieldLen == 1    \* records in a list of the field-check family
MaxDupLen == 3      \* records in a list of the duplicate-check family
MaxFeatLen == 4     \* records in a list of the featured-selection family
MaxDateLen == 2     \* records in a list of the date-format family
MaxByDateLen == 3   \* records in a list of the by-date family
MaxCatLen == 3      \* records in a list of the by-category family

----------------------------------------------------------------------------
(* Python values. *)

Min(a, b) == IF a <= b THEN a ELSE b

\* dict.get(key, default)
Get(r, k, d) == IF k \in DOMAIN r THEN r[k] ELSE d

Has(r, k) == k \in DOMAIN r

\* r[key] = value on a dict
Put(r, k, v) == [f \in DOMAIN r \cup {k} |-> IF f = k THEN v ELSE r[f]]

\* The dict with no key.
EmptyDict == [k \in {} |-> ""]

\* Python's None as a loaded document (no JSON document has this key).
None == [None |-> TRUE]

\* Truthiness of a loaded document: None and {} are falsy.
DocTruthy(d) == d # None /\ DOMAIN d # {}

\* `not report.get(field)` for a field of the record: the key is absent or
\* its string is empty.
FieldFalsy(r, field) ==
    \/ ~Has(r, field)
    \/ IF field = "date" THEN Len(r[field]) = 0
       ELSE IF field = "featured" THEN ~r[field]
       ELSE r[field] = ""

\* Unicode code points of the characters the dates of the model use.
CodePoint ==
    ("-" :> 45) @@ ("/" :> 47) @@ ("0" :> 48) @@ ("1" :> 49) @@ ("2" :> 50)
    @@ ("3" :> 51) @@ ("4" :> 52) @@ ("5" :> 53) @@ ("6" :> 54) @@ ("7" :> 55)
    @@ ("8" :> 56) @@ ("9" :> 57) @@ ("U" :> 85) @@ ("k" :> 107)
    @@ ("n" :> 110) @@ ("o" :> 111) @@ ("w" :> 119)

\* Python's str < str: by code point at the first difference, a proper
\* prefix first.
StrLess(a, b) ==
    LET n == Min(Len(a), Len(b))
        diff == {i \in 1..n : a[i] # b[i]}
    IN  IF diff = {} THEN Len(a) < Len(b)
        ELSE LET i == CHOOSE j \in diff : \A k \in diff : j <= k
             IN  CodePoint[a[i]] < CodePoint[b[i]]

\* list.sort / sorted on a list of positions: a stable sort.  before[x, y]
\* says that x's key is strictly less than y's in the order asked for; an
\* element is placed after every element it is not strictly before.
StableSort(seq, before) ==
    LET Insert(s, x) ==
            LET k == Cardinality({i \in 1..Len(s) : ~before[x, s[i]]})
            IN  SubSeq(s, 1, k) \o <<x>> \o SubSeq(s, k + 1, Len(s))
        sorted[n \in 0..Len(seq)] ==
            IF n = 0 THEN <<>> ELSE Insert(sorted[n - 1], seq[n])
    IN  sorted[Len(seq)]

\* The concatenation of f[1], ..., f[n], each a sequence.
Concat(f, n) ==
    LET cat[i \in 0..n] == IF i = 0 THEN <<>> ELSE cat[i - 1] \o f[i]
    IN  cat[n]

----------------------------------------------------------------------------
(* The dates of the model. *)

D10 == <<"2", "0", "2", "6", "-", "0", "1", "-", "1", "0">>
D12 == <<"2", "0", "2", "6", "-", "0", "1", "-", "1", "2">>
D15 == <<"2", "0", "2", "6", "-", "0", "1", "-", "1", "5">>
D17 == <<"2", "0", "2", "6", "-", "0", "1", "-", "1", "7">>
D19 == <<"2", "0", "2", "6", "-", "0", "1", "-", "1", "9">>
DSlash == <<"2", "0", "2", "6", "/", "0", "1", "/", "1", "9">>
DDayFirst == <<"1", "9", "-", "0", "1", "-", "2", "0", "2", "6">>
DShort == <<"2", "0", "2", "6", "-", "1", "-", "1", "9">>
DOneDash == <<"2", "0", "2", "6", "-", "0", "1", "/", "1", "9">>
DEmpty == <<>>
DUnknown == <<"U", "n", "k", "n", "o", "w", "n">>

----------------------------------------------------------------------------
(* build/validate-reports.py *)

Required == <<"id", "filename", "title", "date", "category">>

ValidCategories == {"solana", "slm", "vertical", "kya", "vc", "cross-chain"}

\* Path.exists() of REPORTS_DIR / filename: joining the empty name gives the
\* directory itself.
FileExists(filename) ==
    IF filename = "" THEN dirExists ELSE dirExists /\ filename \in disk

\* data.get("reports", [])
ReportsOf(d) == Get(d, "reports", <<>>)

\* data.get("categories", {}): an ordered mapping, a sequence of
\* [id, info] entries with distinct ids.
CategoriesOf(d) == Get(d, "categories", <<>>)

\* A date test that forgets the second hyphen.
DateFormatOK_OneHyphen(date) == Len(date) = 10 /\ date[5] = "-"

\* The date test of validate_report_fields (Python indexes from 0).
DateFormatOK(date) == Len(date) = 10 /\ date[5] = "-" /\ date[8] = "-"

\* validate_html_files: the errors it appends, in order.
HtmlFileErrors(reports) ==
    LET one(r) ==
            IF FieldFalsy(r, "filename")
            THEN <<[kind |-> "Report missing filename",
                    id |-> Get(r, "id", "unknown")]>>
            ELSE IF ~FileExists(r.filename)
            THEN <<[kind |-> "Missing HTML file", filename |-> r.filename]>>
            ELSE <<>>
    IN  Concat([i \in 1..Len(reports) |-> one(reports[i])], Len(reports))

\* validate_report_fields: the errors one record adds, in order.
RecordFieldErrors(r) ==
    LET rid == Get(r, "id", "unknown")
        missing(f) ==
            IF FieldFalsy(r, f)
            THEN <<[kind |-> "missing required field", id |-> rid, field |-> f]>>
            ELSE <<>>
        date == Get(r, "date", DEmpty)
    IN  Concat([i \in 1..Len(Required) |-> missing(Required[i])], Len(Required))
        \o (IF Len(date) # 0 /\ ~DateFormatOK(date)
            THEN <<[kind |-> "invalid date format", id |-> rid, date |-> date]>>
            ELSE <<>>)

\* A field check that stops at the first record it finds an error in.
FieldErrors_FailFast(reports) ==
    LET bad == {i \in 1..Len(reports) : Len(RecordFieldErrors(reports[i])) # 0}
    IN  IF bad = {} THEN <<>>
        ELSE RecordFieldErrors(reports[CHOOSE i \in bad : \A j \in bad : i <= j])

\* validate_report_fields: every record is visited.
FieldErrors(reports) ==
    Concat([i \in 1..Len(reports) |-> RecordFieldErrors(reports[i])],
           Len(reports))

\* validate_report_fields: the unknown-category warnings.
FieldWarnings(reports) ==
    LET one(r) ==
            LET cat == Get(r, "category", "")
            IN  IF cat # "" /\ cat \notin ValidCategories
                THEN <<[kind |-> "unknown category",
                        id |-> Get(r, "id", "unknown"), category |-> cat]>>
                ELSE <<>>
    IN  Concat([i \in 1..Len(reports) |-> one(reports[i])], Len(reports))

\* A duplicate check that compares each record with the one before it only.
DuplicateErrors_Adjacent(reports) ==
    LET idOf(i) == Get(reports[i], "id", "")
        fnOf(i) == Get(reports[i], "filename", "")
        one(i) ==
            (IF i > 1 /\ idOf(i - 1) = idOf(i)
             THEN <<[kind |-> "Duplicate report ID", id |-> idOf(i)]>>
             ELSE <<>>)
            \o (IF i > 1 /\ fnOf(i - 1) = fnOf(i)
                THEN <<[kind |-> "Duplicate filename", filename |-> fnOf(i)]>>
                ELSE <<>>)
    IN  Concat([i \in 1..Len(reports) |-> one(i)], Len(reports))

\* validate_duplicates: one pass with the two seen-mappings.
DuplicateErrors(reports) ==
    LET idOf(i) == Get(reports[i], "id", "")
        fnOf(i) == Get(reports[i], "filename", "")
        one(i) ==
            (IF \E j \in 1..(i - 1) : idOf(j) = idOf(i)
             THEN <<[kind |-> "Duplicate report ID", id |-> idOf(i)]>>
             ELSE <<>>)
            \o (IF \E j \in 1..(i - 1) : fnOf(j) = fnOf(i)
                THEN <<[kind |-> "Duplicate filename", filename |-> fnOf(i)]>>
                ELSE <<>>)
    IN  Concat([i \in 1..Len(reports) |-> one(i)], Len(reports))

\* validate_orphan_files: the files of reports/ no record names.
Orphans(d) ==
    IF ~dirExists \/ ~DocTruthy(d) THEN {}
    ELSE {f \in disk :
            \A i \in 1..Len(ReportsOf(d)) : Get(ReportsOf(d)[i], "filename", "") # f}

\* The orders in which glob may yield the files of a set.
Orderings(S) ==
    {s \in [1..Cardinality(S) -> S] : \A i, j \in DOMAIN s : s[i] = s[j] => i = j}

\* validate_reports_json, called by main
VLoad ==
    /\ pc = "v_load"
    /\ IF metaState = "absent"
       THEN data' = None /\ errors' = errors \o <<[kind |-> "Missing reports.json"]>>
       ELSE IF metaState = "badjson"
       THEN data' = None /\ errors' = errors \o <<[kind |-> "Invalid JSON"]>>
       ELSE data' = metaDoc /\ errors' = errors
    /\ pc' = IF DocTruthy(data') THEN "v_schema" ELSE "v_summary"
    /\ UNCHANGED <<toolVars, envVars, warnings, reported, exitCode, idxVars>>

\* A schema step for which a missing schema file is an error.
VSchema_MissingSchemaFatal ==
    /\ pc = "v_schema"
    /\ warnings' =
          IF schemaState = "nolib"
          THEN warnings \o <<[kind |-> "jsonschema not installed"]>>
          ELSE warnings
    /\ errors' =
          IF schemaState \in {"fail", "nofile"}
          THEN errors \o <<[kind |-> "Schema validation failed"]>>
          ELSE errors
    /\ pc' = "v_html"
    /\ UNCHANGED <<toolVars, envVars, data, reported, exitCode, idxVars>>

\* validate_schema
VSchema ==
    /\ pc = "v_schema"
    /\ warnings' =
          IF schemaState = "nolib"
          THEN warnings \o <<[kind |-> "jsonschema not installed"]>>
          ELSE IF schemaState = "nofile"
          THEN warnings \o <<[kind |-> "Schema file not found"]>>
          ELSE warnings
    /\ errors' =
          IF schemaState = "fail"
          THEN errors \o <<[kind |-> "Schema validation failed"]>>
          ELSE errors
    /\ pc' = "v_html"
    /\ UNCHANGED <<toolVars, envVars, data, reported, exitCode, idxVars>>

\* validate_html_files
VHtmlFiles ==
    /\ pc = "v_html"
    /\ errors' = errors \o HtmlFileErrors(ReportsOf(data))
    /\ pc' = "v_fields"
    /\ UNCHANGED <<toolVars, envVars, data, warnings, reported, exitCode, idxVars>>

\* validate_report_fields
VReportFields ==
    /\ pc = "v_fields"
    /\ errors' = errors \o FieldErrors(ReportsOf(data))
    /\ warnings' = warnings \o FieldWarnings(ReportsOf(data))
    /\ pc' = "v_dups"
    /\ UNCHANGED <<toolVars, envVars, data, reported, exitCode, idxVars>>

\* validate_duplicates
VDuplicates ==
    /\ pc = "v_dups"
    /\ errors' = errors \o DuplicateErrors(ReportsOf(data))
    /\ pc' = "v_orphans"
    /\ UNCHANGED <<toolVars, envVars, data, warnings, reported, exitCode, idxVars>>

\* validate_orphan_files: it loads the metadata file again (the file has not
\* changed, so the load succeeds again) and warns once per orphan, in the
\* order glob yields them.
VOrphans ==
    /\ pc = "v_orphans"
    /\ \E order \in Orderings(Orphans(metaDoc)) :
          warnings' = warnings \o
              [i \in 1..Len(order) |-> [kind |-> "Orphan HTML file", filename |-> order[i]]]
    /\ pc' = "v_summary"
    /\ UNCHANGED <<toolVars, envVars, data, errors, reported, exitCode, idxVars>>

\* The summary of main: print the warnings and the errors, then exit.
VSummary ==
    /\ pc = "v_summary"
    /\ reported' = errors
    /\ exitCode' = IF Len(errors) # 0 THEN 1 ELSE 0
    /\ pc' = "exit"
    /\ UNCHANGED <<toolVars, envVars, data, errors, warnings, idxVars>>

NextValidate ==
    \/ VLoad
    \/ VSchema
    \/ VHtmlFiles
    \/ VReportFields
    \/ VDuplicates
    \/ VOrphans
    \/ VSummary

----------------------------------------------------------------------------
(* The inputs of the validation run. *)

\* A key with its value, or no key: o is <<>> or <<value>>.
Opt(k, o) == IF Len(o) = 0 THEN EmptyDict ELSE (k :> o[1])

MkReport(id, filename, title, date, category) ==
    Opt("id", id) @@ Opt("filename", filename) @@ Opt("title", title)
    @@ Opt("date", date) @@ Opt("category", category)

NoCategories == <<>>

Doc(reports, categories) == [reports |-> reports, categories |-> categories]

\* Records that differ in every field the field checks read: absent, empty,
\* unknown, badly formatted or good.
FieldRecords ==
    {MkReport(id, fn, <<t>>, d, c) :
        id \in {<<>>, <<"a">>},
        fn \in {<<"a.html">>, <<"">>, <<"gone.html">>},
        t \in {"T", ""},
        d \in {<<D19>>, <<>>, <<DSlash>>, <<DDayFirst>>, <<DOneDash>>},
        c \in {<<"slm">>, <<>>, <<"misc">>}}

\* Records whose date is absent, empty, good or of a bad format, with a title
\* or an empty one.
DateRecords ==
    {MkReport(<<"a">>, <<"a.html">>, <<t>>, d, <<"slm">>) :
        t \in {"T", ""},
        d \in {<<D19>>, <<>>, <<DEmpty>>, <<DSlash>>, <<DDayFirst>>, <<DShort>>,
               <<DOneDash>>}}

\* Records, otherwise valid, whose ids and filenames repeat or are absent.
DupRecords ==
    {MkReport(id, fn, <<"T">>, <<D19>>, <<"slm">>) :
        id \in {<<>>, <<"">>, <<"a">>, <<"b">>},
        fn \in {<<>>, <<"a.html">>, <<"b.html">>}}

GoodRecord == MkReport(<<"a">>, <<"a.html">>, <<"T">>, <<D19>>, <<"slm">>)

\* A record that is valid but for a category outside the enumeration.
MiscRecord == MkReport(<<"a">>, <<"a.html">>, <<"T">>, <<D19>>, <<"misc">>)

\* The files a run finds.
Env(ms, doc, ss, de, dk) ==
    /\ metaState = ms
    /\ metaDoc = doc
    /\ schemaState = ss
    /\ dirExists = de
    /\ disk = dk

\* Stores of records with field errors, with date errors, with repeated ids
\* and filenames; then every state of the metadata file, the schema and the
\* reports directory, around an empty document, an empty list, a good store
\* a store with an unknown category and a store that repeats a record.
ValidateInputs ==
    \/ \E k \in 0..MaxFieldLen : \E rs \in [1..k -> FieldRecords] :
          \E ss \in {"pass", "nofile"} :
             Env("ok", Doc(rs, NoCategories), ss, TRUE, {"a.html"})
    \/ \E k \in 1..MaxDateLen : \E rs \in [1..k -> DateRecords] :
          \E ss \in {"pass", "nofile"} :
             Env("ok", Doc(rs, NoCategories), ss, TRUE, {"a.html"})
    \/ \E k \in 1..MaxDupLen : \E rs \in [1..k -> DupRecords] :
          Env("ok", Doc(rs, NoCategories), "pass", TRUE, {"a.html", "b.html", "orphan.html"})
    \/ \E ms \in {"absent", "badjson", "ok"} :
          \E doc \in IF ms = "ok"
                     THEN {EmptyDict, [reports |-> <<>>], Doc(<<GoodRecord>>, NoCategories),
                           Doc(<<MiscRecord>>, NoCategories),
                           Doc(<<GoodRecord, GoodRecord>>, NoCategories)}
                     ELSE {EmptyDict} :
             \E ss \in {"nolib", "nofile", "pass", "fail"} :
                \E dk \in SUBSET {"a.html", "orphan.html", "stray.html"} :
                   \E de \in IF dk = {} THEN BOOLEAN ELSE {TRUE} :
                      Env(ms, doc, ss, de, dk)

InitProcess(start) ==
    /\ pc = start
    /\ data = None
    /\ errors = <<>>
    /\ warnings = <<>>
    /\ reported = <<>>
    /\ exitCode = -1
    /\ featured = <<>>
    /\ byCategory = <<>>
    /\ byDate = <<>>
    /\ html = EmptyDict
    /\ indexWrites = <<>>

\* The migration has not run: nothing parsed, nothing written.
IdleMigrate ==
    /\ indexEvents = <<>>
    /\ fed = 0
    /\ parser = None
    /\ unique_reports = <<>>
    /\ metadata = None

\* The style injector has not run.
IdleStyles == site = EmptyDict /\ snapshots = <<site>>

\* get_featured_reports has not been called outside generate_index.
IdleCalls == returned = <<>>

InitValidate ==
    ValidateInputs /\ InitProcess("v_load") /\ IdleMigrate /\ IdleStyles /\ IdleCalls

SpecValidate == InitValidate /\ [][NextValidate]_vars

----------------------------------------------------------------------------
(* Claims about the validation run. *)

\* The errors of one kind, in the order they were recorded.
OfKind(errs, kind) == SelectSeq(errs, LAMBDA e : e.kind = kind)

\* The k-th smallest element of a set of numbers.
Nth(P, k) == CHOOSE i \in P : Cardinality({j \in P : j < i}) = k - 1

InputReports == ReportsOf(metaDoc)

\* What the claim asks of the records: the five fields non-empty, the date of
\* 10 characters with "-" at zero-based indices 4 and 7, ids and filenames
\* pairwise distinct, every artifact in the reports directory.
WellFormedStore ==
    LET rs == InputReports
        n == Len(rs)
    IN  /\ \A i \in 1..n :
              /\ {"id", "filename", "title", "date", "category"} \subseteq DOMAIN rs[i]
              /\ rs[i].id # "" /\ rs[i].filename # "" /\ rs[i].title # ""
              /\ rs[i].category # ""
              /\ Len(rs[i].date) = 10
              /\ rs[i].date[4 + 1] = "-" /\ rs[i].date[7 + 1] = "-"
              /\ dirExists /\ rs[i].filename \in disk
        /\ \A i, j \in 1..n :
              i # j => rs[i].id # rs[j].id /\ rs[i].filename # rs[j].filename

\* C1: for a metadata document with a non-empty report list whose schema
\* check does not fail (the schema passes, is absent, or cannot be checked),
\* the validation run exits 0 with no error recorded if and only if every
\* record has its five required fields non-empty, a date of 10 characters
\* with "-" at indices 4 and 7, an id and a filename no other record has, and
\* an existing artifact.
C1_AcceptsIffWellFormed ==
    (pc = "exit" /\ metaState = "ok" /\ Len(InputReports) > 0
        /\ schemaState # "fail")
    => ((exitCode = 0 /\ Len(errors) = 0) <=> WellFormedStore)

\* A run that accepted a store of two records.
C1_Witness ==
    /\ pc = "exit" /\ metaState = "ok" /\ schemaState = "pass"
    /\ Len(InputReports) = 2
    /\ exitCode = 0

\* C9: once validate_duplicates has run, the duplicate-id errors are, in
\* order, the ids of the records whose id (the empty string when the record
\* has none) occurred earlier in the list: one error per later occurrence,
\* none for a first occurrence, so their number is the number of records
\* minus the number of distinct ids.  Likewise for filenames.
C9_OneErrorPerLaterOccurrence ==
    (pc \in {"v_orphans", "v_summary", "exit"} /\ DocTruthy(data))
    => LET rs == ReportsOf(data)
           n == Len(rs)
           val(f, i) == IF f \in DOMAIN rs[i] THEN rs[i][f] ELSE ""
           later(f) == {i \in 1..n : \E j \in 1..n : j < i /\ val(f, j) = val(f, i)}
           idErrs == OfKind(errors, "Duplicate report ID")
           fnErrs == OfKind(errors, "Duplicate filename")
       IN  /\ Len(idErrs) = n - Cardinality({val("id", i) : i \in 1..n})
           /\ Len(fnErrs) = n - Cardinality({val("filename", i) : i \in 1..n})
           /\ Len(idErrs) = Cardinality(later("id"))
           /\ Len(fnErrs) = Cardinality(later("filename"))
           /\ \A k \in 1..Len(idErrs) : idErrs[k].id = val("id", Nth(later("id"), k))
           /\ \A k \in 1..Len(fnErrs) :
                  fnErrs[k].filename = val("filename", Nth(later("filename"), k))

\* Three records with the same id: the second and the third are reported,
\* the first is not.
C9_Witness ==
    /\ pc = "v_orphans"
    /\ Len(ReportsOf(data)) = 3
    /\ \A i \in 1..3 : Get(ReportsOf(data)[i], "id", "") = "a"
    /\ Len(OfKind(errors, "Duplicate report ID")) = 2

\* C10: the run exits nowhere but at the end of main, and on a loadable
\* document every violation of every record has then been recorded and
\* printed: each missing field of each record, each badly formatted date,
\* each missing filename or artifact, each repeated id or filename; the exit
\* status is 1 exactly when there is an error.
C10_ErrorsBatched ==
    /\ pc # "exit" => exitCode = -1 /\ Len(reported) = 0
    /\ (pc = "exit" /\ metaState = "ok" /\ DocTruthy(metaDoc))
       => LET rs == InputReports
              n == Len(rs)
              absent(i, f) == f \notin DOMAIN rs[i] \/ Len(rs[i][f]) = 0
              rid(i) == IF "id" \in DOMAIN rs[i] THEN rs[i].id ELSE "unknown"
              missing == {<<i, f>> \in (1..n) \X {"id", "filename", "title", "date", "category"} :
                            IF f = "date" THEN absent(i, f)
                            ELSE f \notin DOMAIN rs[i] \/ rs[i][f] = ""}
              badDate == {i \in 1..n : ~absent(i, "date")
                            /\ ~(Len(rs[i].date) = 10 /\ rs[i].date[5] = "-"
                                 /\ rs[i].date[8] = "-")}
              noName == {i \in 1..n : "filename" \notin DOMAIN rs[i] \/ rs[i].filename = ""}
              noFile == {i \in 1..n : i \notin noName
                            /\ ~(dirExists /\ rs[i].filename \in disk)}
              field == {e \in {reported[k] : k \in 1..Len(reported)} :
                            e.kind = "missing required field"}
          IN  /\ reported = errors
              /\ exitCode = (IF Len(errors) = 0 THEN 0 ELSE 1)
              /\ Len(OfKind(reported, "missing required field")) = Cardinality(missing)
              /\ \A m \in missing :
                    [kind |-> "missing required field", id |-> rid(m[1]), field |-> m[2]]
                        \in field
              /\ Len(OfKind(reported, "invalid date format")) = Cardinality(badDate)
              /\ Len(OfKind(reported, "Report missing filename")) = Cardinality(noName)
              /\ Len(OfKind(reported, "Missing HTML file")) = Cardinality(noFile)
              /\ Len(OfKind(reported, "Duplicate report ID"))
                    = n - Cardinality({Get(rs[i], "id", "") : i \in 1..n})
              /\ Len(OfKind(reported, "Duplicate filename"))
                    = n - Cardinality({Get(rs[i], "filename", "") : i \in 1..n})

\* A finished run on three records, the first and the last of which each
\* lack a field: both are reported, with the duplicate the last one makes.
C10_Witness ==
    /\ pc = "exit" /\ exitCode = 1
    /\ Len(InputReports) = 3
    /\ "id" \notin DOMAIN InputReports[1]
    /\ "filename" \notin DOMAIN InputReports[3]
    /\ Len(OfKind(reported, "missing required field")) >= 2
    /\ Len(OfKind(reported, "Duplicate report ID")) >= 1

\* C11: a run on a loadable store in which no record lacks a field, has a
\* badly formatted date, repeats an id or a filename or names a missing
\* artifact, and whose schema check does not fail, exits 0 with no error and
\* with exactly one warning per unknown category, one per orphan artifact
\* and one for an absent schema file or schema library.  The schema step
\* records an error, and the run then exits 1, exactly when the library is
\* present, the schema file exists and validation against it fails.
C11_AdvisoryNeverFatal ==
    LET rs == InputReports
        n == Len(rs)
        unknown == {i \in 1..n : "category" \in DOMAIN rs[i]
                        /\ rs[i].category # ""
                        /\ rs[i].category \notin
                              {"solana", "slm", "vertical", "kya", "vc", "cross-chain"}}
        orphan == IF dirExists
                  THEN {f \in disk : \A i \in 1..n :
                            "filename" \notin DOMAIN rs[i] \/ rs[i].filename # f}
                  ELSE {}
        noSchema == IF schemaState \in {"nolib", "nofile"} THEN 1 ELSE 0
        schemaRan == pc \in {"v_html", "v_fields", "v_dups", "v_orphans", "v_summary", "exit"}
                        /\ DocTruthy(data)
    IN  /\ (pc = "exit" /\ metaState = "ok" /\ DocTruthy(metaDoc)
                /\ schemaState # "fail" /\ WellFormedStore)
           => /\ exitCode = 0
              /\ Len(errors) = 0
              /\ Len(OfKind(warnings, "unknown category")) = Cardinality(unknown)
              /\ Len(OfKind(warnings, "Orphan HTML file")) = Cardinality(orphan)
              /\ Len(warnings) = Cardinality(unknown) + Cardinality(orphan) + noSchema
        /\ Len(OfKind(errors, "Schema validation failed"))
              = (IF schemaRan /\ schemaState = "fail" THEN 1 ELSE 0)
        /\ (pc = "exit" /\ schemaRan /\ schemaState = "fail") => exitCode = 1

\* A finished run whose findings are an unknown category, two orphan
\* artifacts and an absent schema file: four warnings, exit status 0.
C11_Witness ==
    /\ pc = "exit" /\ exitCode = 0
    /\ schemaState = "nofile"
    /\ Len(OfKind(warnings, "unknown category")) = 1
    /\ Len(OfKind(warnings, "Orphan HTML file")) = 2
    /\ Len(warnings) = 4

----------------------------------------------------------------------------
(* build/generate-index.py *)

\* [1, ..., n]: the positions of a list, standing for its objects.
Positions(n) == [i \in 1..n |-> i]

Featured3 == 3

LabelFirst == "NEW - Latest Research"

LabelLater == "Key Document"

\* A selection that sorts the remaining records ascending and reverses the
\* result, which also reverses the records of equal date.
FeaturedSelection_ReversedTies(reports) ==
    LET n == Len(reports)
        flagged == SelectSeq(Positions(n), LAMBDA i : ~FieldFalsy(reports[i], "featured"))
        remaining == SelectSeq(Positions(n), LAMBDA i : FieldFalsy(reports[i], "featured"))
        key(i) == Get(reports[i], "date", DEmpty)
        asc == StableSort(remaining, [x, y \in 1..n |-> StrLess(key(x), key(y))])
        sorted == [k \in 1..Len(asc) |-> asc[Len(asc) + 1 - k]]
        all == IF Len(flagged) < Featured3
               THEN flagged \o SubSeq(sorted, 1, Min(Featured3 - Len(flagged), Len(sorted)))
               ELSE flagged
    IN  SubSeq(all, 1, Min(Featured3, Len(all)))

\* featured[:3] as get_featured_reports builds it, as positions in reports.
FeaturedSelection(reports) ==
    LET n == Len(reports)
        flagged == SelectSeq(Positions(n), LAMBDA i : ~FieldFalsy(reports[i], "featured"))
        remaining == SelectSeq(Positions(n), LAMBDA i : FieldFalsy(reports[i], "featured"))
        key(i) == Get(reports[i], "date", DEmpty)
        sorted == StableSort(remaining, [x, y \in 1..n |-> StrLess(key(y), key(x))])
        all == IF Len(flagged) < Featured3
               THEN flagged \o SubSeq(sorted, 1, Min(Featured3 - Len(flagged), Len(sorted)))
               ELSE flagged
    IN  SubSeq(all, 1, Min(Featured3, Len(all)))

\* A labelling that overwrites the label a record already has.
Labelled_Overwrite(report, i) ==
    Put(Put(report, "featured_label", IF i = 1 THEN LabelFirst ELSE LabelLater),
        "featured", TRUE)

\* A labelling that leaves the featured flag of the record as it is.
Labelled_NoFlag(report, i) ==
    IF FieldFalsy(report, "featured_label")
    THEN Put(report, "featured_label", IF i = 1 THEN LabelFirst ELSE LabelLater)
    ELSE report

\* The labelling loop of get_featured_reports on the record at position i of
\* the selection.
Labelled(report, i) ==
    LET r == IF FieldFalsy(report, "featured_label")
             THEN Put(report, "featured_label", IF i = 1 THEN LabelFirst ELSE LabelLater)
             ELSE report
    IN  Put(r, "featured", TRUE)

\* A get_featured_reports whose labelling loop runs over every flagged record
\* instead of the three it returns.
GetFeaturedReports_LabelsAllFlagged(reports) ==
    LET sel == FeaturedSelection(reports)
        n == Len(reports)
        flagged == SelectSeq(Positions(n), LAMBDA i : ~FieldFalsy(reports[i], "featured"))
        all == IF Len(flagged) < Featured3 THEN sel ELSE flagged
        at(i) == CHOOSE k \in 1..Len(all) : all[k] = i
    IN  [featured |-> sel,
         reports |-> [i \in 1..n |->
                        IF \E k \in 1..Len(all) : all[k] = i
                        THEN Labelled(reports[i], at(i))
                        ELSE reports[i]]]

\* get_featured_reports: the list it returns (positions in reports) and the
\* report list as it leaves it, the selected records changed in place.
GetFeaturedReports(reports) ==
    LET sel == FeaturedSelection(reports)
        at(i) == CHOOSE k \in 1..Len(sel) : sel[k] = i
    IN  [featured |-> sel,
         reports |-> [i \in 1..Len(reports) |->
                        IF \E k \in 1..Len(sel) : sel[k] = i
                        THEN Labelled(reports[i], at(i))
                        ELSE reports[i]]]

DefaultOrder == 99

\* A grouping that iterates the categories as the mapping lists them.
OrganizeByCategory_Unsorted(reports, categories) ==
    LET n == Len(reports)
        cat(i) == Get(reports[i], "category", "other")
        m == Len(categories)
        present == SelectSeq(Positions(m), LAMBDA c : \E i \in 1..n : cat(i) = categories[c].id)
    IN  [k \in 1..Len(present) |->
            [id |-> categories[present[k]].id,
             info |-> categories[present[k]].info,
             reports |-> SelectSeq(Positions(n),
                                   LAMBDA i : cat(i) = categories[present[k]].id)]]

\* organize_by_category: the entries of sorted_categories in iteration order,
\* each bucket a list of positions in reports.
OrganizeByCategory(reports, categories) ==
    LET n == Len(reports)
        cat(i) == Get(reports[i], "category", "other")
        order(c) == Get(c.info, "order", DefaultOrder)
        m == Len(categories)
        sorted == StableSort(Positions(m),
                             [x, y \in 1..m |-> order(categories[x]) < order(categories[y])])
        present == SelectSeq(sorted, LAMBDA c : \E i \in 1..n : cat(i) = categories[c].id)
    IN  [k \in 1..Len(present) |->
            [id |-> categories[present[k]].id,
             info |-> categories[present[k]].info,
             reports |-> SelectSeq(Positions(n),
                                   LAMBDA i : cat(i) = categories[present[k]].id)]]

\* A grouping by date that sorts the keys ascending.
OrganizeByDate_Ascending(reports) ==
    LET n == Len(reports)
        date(i) == Get(reports[i], "date", DUnknown)
        first == SelectSeq(Positions(n), LAMBDA i : \A j \in 1..(i - 1) : date(j) # date(i))
        sorted == StableSort(first, [x, y \in 1..n |-> StrLess(date(x), date(y))])
    IN  [k \in 1..Len(sorted) |->
            [date |-> date(sorted[k]),
             reports |-> SelectSeq(Positions(n), LAMBDA i : date(i) = date(sorted[k]))]]

\* organize_by_date: the entries of the returned dict in iteration order.
OrganizeByDate(reports) ==
    LET n == Len(reports)
        date(i) == Get(reports[i], "date", DUnknown)
        first == SelectSeq(Positions(n), LAMBDA i : \A j \in 1..(i - 1) : date(j) # date(i))
        sorted == StableSort(first, [x, y \in 1..n |-> StrLess(date(y), date(x))])
    IN  [k \in 1..Len(sorted) |->
            [date |-> date(sorted[k]),
             reports |-> SelectSeq(Positions(n), LAMBDA i : date(i) = date(sorted[k]))]]

\* The objects a list of positions stands for.
Deref(reports, idx) == [k \in 1..Len(idx) |-> reports[idx[k]]]

\* load_reports_json: exit(1) without the file; json.load raises on a file
\* that is not JSON, and the uncaught exception ends the process with status 1.
GLoad ==
    /\ pc = "g_load"
    /\ IF metaState = "ok"
       THEN data' = metaDoc /\ pc' = "g_schema" /\ exitCode' = exitCode
       ELSE data' = data /\ pc' = "exit" /\ exitCode' = 1
    /\ UNCHANGED <<toolVars, envVars, valVars, idxVars>>

\* A schema step that goes on after a failed validation.
GSchema_NoExit ==
    /\ pc = "g_schema"
    /\ pc' = "g_verify"
    /\ UNCHANGED <<toolVars, envVars, data, valVars, exitCode, idxVars>>

\* validate_schema, and main's exit on its False.
GSchema ==
    /\ pc = "g_schema"
    /\ IF schemaState = "fail"
       THEN pc' = "exit" /\ exitCode' = 1
       ELSE pc' = "g_verify" /\ exitCode' = exitCode
    /\ UNCHANGED <<toolVars, envVars, data, valVars, idxVars>>

\* A verification step that lists the missing files and goes on.
GVerify_NoExit ==
    /\ pc = "g_verify"
    /\ LET rs == ReportsOf(data)
       IN  IF \E i \in 1..Len(rs) : ~Has(rs[i], "filename")
           THEN pc' = "exit" /\ exitCode' = 1
           ELSE pc' = "g_generate" /\ exitCode' = exitCode
    /\ UNCHANGED <<toolVars, envVars, data, valVars, idxVars>>

\* verify_html_files, and main's exit on its False; report["filename"] raises
\* KeyError on a record without the key.
GVerify ==
    /\ pc = "g_verify"
    /\ LET rs == ReportsOf(data)
           missing == {i \in 1..Len(rs) : ~Has(rs[i], "filename") \/ ~FileExists(rs[i].filename)}
       IN  IF missing # {}
           THEN pc' = "exit" /\ exitCode' = 1
           ELSE pc' = "g_generate" /\ exitCode' = exitCode
    /\ UNCHANGED <<toolVars, envVars, data, valVars, idxVars>>

\* generate_index: the three derivations, then the template's context.
GGenerate ==
    /\ pc = "g_generate"
    /\ LET got == GetFeaturedReports(ReportsOf(data))
           reports == got.reports
           categories == CategoriesOf(data)
           cats == OrganizeByCategory(reports, categories)
           dates == OrganizeByDate(reports)
       IN  /\ data' = IF Has(data, "reports") THEN Put(data, "reports", reports) ELSE data
           /\ featured' = got.featured
           /\ byCategory' = cats
           /\ byDate' = dates
           /\ html' = [total_reports |-> Len(reports),
                       categories |-> categories,
                       featured_reports |-> Deref(reports, got.featured),
                       reports_by_category |->
                           [k \in 1..Len(cats) |->
                               [id |-> cats[k].id, info |-> cats[k].info,
                                reports |-> Deref(reports, cats[k].reports)]],
                       reports_by_date |->
                           [k \in 1..Len(dates) |->
                               [date |-> dates[k].date,
                                reports |-> Deref(reports, dates[k].reports)]],
                       all_reports |-> reports]
    /\ pc' = "g_write"
    /\ UNCHANGED <<toolVars, envVars, valVars, exitCode, indexWrites>>

\* Step 5 of main: write index.html; main then returns.
GWrite ==
    /\ pc = "g_write"
    /\ indexWrites' = Append(indexWrites, html)
    /\ pc' = "exit"
    /\ exitCode' = 0
    /\ UNCHANGED <<toolVars, envVars, data, valVars, featured, byCategory, byDate, html>>

NextIndex ==
    \/ GLoad
    \/ GSchema
    \/ GVerify
    \/ GGenerate
    \/ GWrite

----------------------------------------------------------------------------
(* The inputs of the index generator. *)

MaxGateLen == 2     \* records in a list of the gate family

RecordNames == <<"r1", "r2", "r3", "r4", "r5", "r6", "r7", "r8">>

ArtifactNames ==
    <<"r1.html", "r2.html", "r3.html", "r4.html", "r5.html", "r6.html",
      "r7.html", "r8.html">>

AllArtifacts == {ArtifactNames[i] : i \in DOMAIN ArtifactNames}

\* The i-th record of a well-formed store; a choice overrides or adds fields.
BaseRecord(i) ==
    [id |-> RecordNames[i], filename |-> ArtifactNames[i], title |-> "T",
     date |-> D15, category |-> "slm"]

\* The list whose i-th record is BaseRecord(i) with the fields of c[i] added
\* or replaced.
Over(c) == [i \in DOMAIN c |-> c[i] @@ BaseRecord(i)]

\* The list whose i-th record is BaseRecord(i) with the field f as o[i] gives
\* it (<<>> for no such key).
WithField(f, o) ==
    [i \in DOMAIN o |->
        Opt(f, o[i]) @@ [g \in DOMAIN BaseRecord(i) \ {f} |-> BaseRecord(i)[g]]]

\* Flag, label and date, the fields the featured selection reads: flagged
\* and not, labelled and not, two dates with ties among the records of
\* either kind.
FeaturedChoices ==
    {[date |-> D10],
     [date |-> D19],
     [date |-> D19, featured |-> FALSE, featured_label |-> ""],
     [date |-> D10, featured_label |-> "Editor's Pick"],
     [date |-> D10, featured |-> TRUE],
     [date |-> D19, featured |-> TRUE],
     [date |-> D19, featured |-> TRUE, featured_label |-> "Editor's Pick"]}

\* Dates present, empty and absent.
DateChoices == {<<>>, <<DEmpty>>, <<D10>>, <<D19>>, <<DUnknown>>}

CategoryChoices == {<<>>, <<"slm">>, <<"vc">>, <<"misc">>}

Category(id, info) == [id |-> id, info |-> info]

\* Category mappings: orders ascending, descending, tied, absent, and one
\* that defines "other".
CategoryMappings ==
    {<<>>,
     <<Category("slm", [name |-> "SLM", order |-> 1]),
       Category("vc", [name |-> "VC", order |-> 2])>>,
     <<Category("slm", [name |-> "SLM", order |-> 2]),
       Category("vc", [name |-> "VC", order |-> 1])>>,
     <<Category("vc", [name |-> "VC", order |-> 1]),
       Category("slm", [name |-> "SLM", order |-> 1])>>,
     <<Category("vc", [name |-> "VC"]),
       Category("kya", [name |-> "KYA", order |-> 1]),
       Category("slm", [name |-> "SLM", order |-> 100])>>,
     <<Category("slm", [name |-> "SLM", order |-> 2]),
       Category("other", [name |-> "Other", order |-> 1])>>}

DefaultMapping == <<Category("slm", [name |-> "SLM", order |-> 1])>>

\* The example of the specification: five reports dated 2026-01-10 to
\* 2026-01-19, no featured flag, all of category "slm".
ExampleFive ==
    [i \in 1..5 |-> [BaseRecord(i) EXCEPT !.date = <<D12, D19, D10, D17, D15>>[i]]]

\* Records for the gate: filename absent, empty, present or not on disk; the
\* same id in every record; a good date with a title, or a bad one without.
GateRecords ==
    {MkReport(<<"a">>, fn, td[1], <<td[2]>>, <<"slm">>) :
        fn \in {<<>>, <<"">>, <<"r1.html">>, <<"r2.html">>},
        td \in {<<<<"T">>, D19>>, <<<<>>, DSlash>>}}

\* Stores for the featured selection, for the by-date view and for the
\* by-category view, with every artifact on disk; then every state of the
\* metadata file, the schema and the reports directory around the stores for
\* the gate.
IndexInputs ==
    \/ \E k \in 0..MaxFeatLen : \E c \in [1..k -> FeaturedChoices] :
          Env("ok", Doc(Over(c), DefaultMapping), "pass", TRUE, AllArtifacts)
    \/ \E k \in 1..MaxByDateLen : \E c \in [1..k -> DateChoices] :
          Env("ok", Doc(WithField("date", c), DefaultMapping), "pass", TRUE, AllArtifacts)
    \/ Env("ok", Doc(ExampleFive, DefaultMapping), "pass", TRUE, AllArtifacts)
    \/ \E k \in 0..MaxCatLen : \E c \in [1..k -> CategoryChoices] :
          \E cs \in CategoryMappings :
             Env("ok", Doc(WithField("category", c), cs), "nofile", TRUE, AllArtifacts)
    \/ \E ms \in {"absent", "badjson"} :
          \E ss \in {"nolib", "nofile", "pass", "fail"} :
             \E dk \in SUBSET {"r1.html", "r2.html"} :
                \E de \in IF dk = {} THEN BOOLEAN ELSE {TRUE} :
                   Env(ms, EmptyDict, ss, de, dk)
    \/ \E k \in 0..MaxGateLen : \E rs \in [1..k -> GateRecords] :
          \E doc \in {Doc(rs, DefaultMapping)} \cup (IF k = 0 THEN {EmptyDict} ELSE {}) :
             \E ss \in {"nolib", "nofile", "pass", "fail"} :
                \E dk \in SUBSET {"r1.html", "r2.html"} :
                   \E de \in IF dk = {} THEN BOOLEAN ELSE {TRUE} :
                      Env("ok", doc, ss, de, dk)

InitIndex ==
    IndexInputs /\ InitProcess("g_load") /\ IdleMigrate /\ IdleStyles /\ IdleCalls

SpecIndex == InitIndex /\ [][NextIndex]_vars

----------------------------------------------------------------------------
(* Claims about the index generator. *)

\* generate_index has returned.
Generated == pc = "g_write" \/ (pc = "exit" /\ Len(indexWrites) > 0)

OutputReports == ReportsOf(data)

\* C2: get_featured_reports returns min(3, number of reports) records.  With
\* three or more records flagged on entry they are the first three flagged,
\* in input order; otherwise every flagged record in input order, then
\* unflagged ones: in descending date order (no date counting as the empty
\* string), equal dates in input order, and none left out that would sort
\* before one taken.
C2_FeaturedSelection ==
    Generated
    => LET rs == InputReports
           n == Len(rs)
           sel == featured
           F == {i \in 1..n : "featured" \in DOMAIN rs[i] /\ rs[i].featured}
           nf == Cardinality(F)
           date(i) == IF "date" \in DOMAIN rs[i] THEN rs[i].date ELSE <<>>
           ahead(i, j) == StrLess(date(j), date(i)) \/ (date(i) = date(j) /\ i < j)
       IN  /\ Len(sel) = (IF n < 3 THEN n ELSE 3)
           /\ \A k \in 1..Len(sel) : sel[k] \in 1..n
           /\ \A k, l \in 1..Len(sel) : k # l => sel[k] # sel[l]
           /\ \A k \in 1..Len(sel) :
                 IF k <= nf THEN sel[k] = Nth(F, k) ELSE sel[k] \notin F
           /\ \A k, l \in 1..Len(sel) : nf < k /\ k < l => ahead(sel[k], sel[l])
           /\ \A k \in 1..Len(sel) : \A j \in 1..n :
                 (nf < k /\ j \notin F /\ \A l \in 1..Len(sel) : sel[l] # j)
                 => ahead(sel[k], j)

\* One flagged record out of four, and two of the three unflagged ones taken
\* with the same date: backfill, truncation and a tie.
C2_Witness ==
    /\ Generated
    /\ Len(InputReports) = 4
    /\ Cardinality({i \in 1..4 : ~FieldFalsy(InputReports[i], "featured")}) = 1
    /\ Len(featured) = 3
    /\ InputReports[featured[2]].date = InputReports[featured[3]].date
    /\ \E j \in 1..4 : j \notin {featured[k] : k \in 1..3}

\* C3: every record get_featured_reports returns has featured = true and a
\* non-empty label: the label it came with if that was non-empty, otherwise
\* "NEW - Latest Research" at position 0 of the returned list and "Key
\* Document" after it.  For the five unflagged, unlabelled reports of the
\* example the result is those of the 19th, 17th and 15th, labelled NEW, Key
\* Document, Key Document.
C3_FeaturedLabels ==
    Generated
    => /\ \A k \in 1..Len(featured) :
              LET before == InputReports[featured[k]]
                  after == OutputReports[featured[k]]
              IN  /\ "featured" \in DOMAIN after /\ after.featured = TRUE
                  /\ "featured_label" \in DOMAIN after /\ after.featured_label # ""
                  /\ IF "featured_label" \in DOMAIN before /\ before.featured_label # ""
                     THEN after.featured_label = before.featured_label
                     ELSE after.featured_label =
                            (IF k = 1 THEN "NEW - Latest Research" ELSE "Key Document")
       /\ InputReports = ExampleFive
          => /\ [k \in 1..Len(featured) |-> OutputReports[featured[k]].date] = <<D19, D17, D15>>
             /\ [k \in 1..Len(featured) |-> OutputReports[featured[k]].featured_label]
                   = <<"NEW - Latest Research", "Key Document", "Key Document">>

\* The example of five reports has been through get_featured_reports.
C3_Witness ==
    /\ Generated
    /\ InputReports = ExampleFive
    /\ Len(featured) = 3

\* The positions of a set of numbers in ascending order.
Ascending(P) == [k \in 1..Cardinality(P) |-> Nth(P, k)]

\* C4 as claimed: the keys of organize_by_category's result are exactly the
\* category ids the mapping defines and at least one report carries in its
\* category field, in non-decreasing declared order with equal orders in
\* mapping order, and each bucket holds exactly the reports whose category
\* field is that id, in input order.
C4_Original_KeysAreCarriedCategories ==
    Generated
    => LET rs == InputReports
           n == Len(rs)
           cs == CategoriesOf(metaDoc)
           carries(i, c) == "category" \in DOMAIN rs[i] /\ rs[i].category = c
           pos(c) == CHOOSE q \in 1..Len(cs) : cs[q].id = c
           declared(k) == "order" \in DOMAIN byCategory[k].info
       IN  /\ {byCategory[k].id : k \in 1..Len(byCategory)}
                 = {cs[q].id : q \in {q \in 1..Len(cs) : \E i \in 1..n : carries(i, cs[q].id)}}
           /\ \A k \in 1..Len(byCategory) :
                 byCategory[k].reports
                     = Ascending({i \in 1..n : carries(i, byCategory[k].id)})
           /\ \A k, l \in 1..Len(byCategory) :
                 (k < l /\ declared(k) /\ declared(l))
                 => \/ byCategory[k].info.order < byCategory[l].info.order
                    \/ /\ byCategory[k].info.order = byCategory[l].info.order
                       /\ pos(byCategory[k].id) < pos(byCategory[l].id)

\* C4, amended: the same, a report without a category field counting as a
\* report of category "other" and a category without an order as of order 99.
C4_KeysAreCategoriesWithDefault ==
    Generated
    => LET rs == InputReports
           n == Len(rs)
           cs == CategoriesOf(metaDoc)
           carries(i, c) ==
               IF "category" \in DOMAIN rs[i] THEN rs[i].category = c ELSE c = "other"
           pos(c) == CHOOSE q \in 1..Len(cs) : cs[q].id = c
           order(k) == IF "order" \in DOMAIN byCategory[k].info
                       THEN byCategory[k].info.order ELSE 99
       IN  /\ {byCategory[k].id : k \in 1..Len(byCategory)}
                 = {cs[q].id : q \in {q \in 1..Len(cs) : \E i \in 1..n : carries(i, cs[q].id)}}
           /\ \A k, l \in 1..Len(byCategory) : k # l => byCategory[k].id # byCategory[l].id
           /\ \A k \in 1..Len(byCategory) :
                 /\ byCategory[k].reports
                       = Ascending({i \in 1..n : carries(i, byCategory[k].id)})
                 /\ Len(byCategory[k].reports) > 0
                 /\ byCategory[k].info = cs[pos(byCategory[k].id)].info
           /\ \A k, l \in 1..Len(byCategory) :
                 k < l
                 => \/ order(k) < order(l)
                    \/ order(k) = order(l) /\ pos(byCategory[k].id) < pos(byCategory[l].id)

\* A mapping that lists "slm" before "other" with the orders the other way
\* round, a report of "slm" and a report without a category: "other" comes
\* first and holds the report without a category.
C4_Witness ==
    /\ Generated
    /\ Len(byCategory) = 2
    /\ byCategory[1].id = "other" /\ byCategory[2].id = "slm"
    /\ \E i \in 1..Len(InputReports) :
          /\ "category" \notin DOMAIN InputReports[i]
          /\ byCategory[1].reports = <<i>>

\* C5: organize_by_date puts each report in exactly one bucket, keyed by its
\* exact date string, or by "Unknown" when the record has no date; the keys
\* are iterated in strictly descending string order and each bucket lists
\* its reports in input order.  The five reports of the example give five
\* buckets of one report, 19, 17, 15, 12, 10.
C5_ByDateBuckets ==
    Generated
    => LET rs == InputReports
           n == Len(rs)
           key(i) == IF "date" \in DOMAIN rs[i] THEN rs[i].date ELSE DUnknown
       IN  /\ \A i \in 1..n :
                 Cardinality({k \in 1..Len(byDate) :
                                \E p \in 1..Len(byDate[k].reports) :
                                    byDate[k].reports[p] = i}) = 1
           /\ \A k \in 1..Len(byDate) :
                 /\ byDate[k].reports = Ascending({i \in 1..n : key(i) = byDate[k].date})
                 /\ Len(byDate[k].reports) > 0
           /\ \A k \in 1..(Len(byDate) - 1) : StrLess(byDate[k + 1].date, byDate[k].date)
           /\ InputReports = ExampleFive
              => /\ [k \in 1..Len(byDate) |-> byDate[k].date] = <<D19, D17, D15, D12, D10>>
                 /\ [k \in 1..Len(byDate) |-> byDate[k].reports]
                       = <<<<2>>, <<4>>, <<5>>, <<1>>, <<3>>>>

\* Two reports without a date around one of the 19th: the "Unknown" bucket
\* holds both, in input order, and comes before the dated one.
C5_Witness ==
    /\ Generated
    /\ Len(InputReports) = 3
    /\ "date" \notin DOMAIN InputReports[1]
    /\ "date" \notin DOMAIN InputReports[3]
    /\ byDate = <<[date |-> DUnknown, reports |-> <<1, 3>>],
                  [date |-> D19, reports |-> <<2>>]>>

\* C6 as claimed: after generate_index every record of the report list has
\* the field values it had before the call.
C6_Original_RecordsUnchanged ==
    Generated => OutputReports = InputReports

\* C6, amended: generate_index changes no record but those it returns as
\* featured, and of those no field but featured and featured_label.
C6_OnlyFeaturedFieldsChange ==
    Generated
    => /\ Len(OutputReports) = Len(InputReports)
       /\ \A i \in 1..Len(InputReports) :
             LET before == InputReports[i]
                 after == OutputReports[i]
                 selected == \E k \in 1..Len(featured) : featured[k] = i
             IN  /\ ~selected => after = before
                 /\ DOMAIN after \ {"featured", "featured_label"}
                       = DOMAIN before \ {"featured", "featured_label"}
                 /\ \A f \in DOMAIN before \ {"featured", "featured_label"} :
                       after[f] = before[f]

\* Four reports, three of them returned as featured and changed, the fourth
\* flagged but not returned.
C6_Witness ==
    /\ Generated
    /\ Len(InputReports) = 4
    /\ \A i \in 1..4 : ~FieldFalsy(InputReports[i], "featured")
    /\ "featured_label" \notin DOMAIN InputReports[4]
    /\ OutputReports[1] # InputReports[1]
    /\ OutputReports[4] = InputReports[4]

\* Some record's artifact, <reports dir>/<filename>, does not exist (or the
\* record names none).
ArtifactMissing ==
    \E i \in 1..Len(InputReports) :
        \/ "filename" \notin DOMAIN InputReports[i]
        \/ ~dirExists
        \/ InputReports[i].filename # "" /\ InputReports[i].filename \notin disk

GateFails ==
    \/ metaState # "ok"
    \/ schemaState = "fail"
    \/ ArtifactMissing

\* C7: index.html is written by the last step of main only, in a run whose
\* load, schema validation and artifact check have succeeded; when the
\* metadata file is absent (or is not JSON), the schema check fails or an
\* artifact is missing, no step writes it and the step that ends the run
\* ends it with a status other than 0.
C7_WriteOnlyAfterChecks ==
    [][/\ indexWrites' # indexWrites
            => pc = "g_write" /\ indexWrites = <<>> /\ ~GateFails
       /\ GateFails
            => /\ indexWrites' = <<>>
               /\ pc' # "g_write"
               /\ pc' = "exit" => exitCode' # 0]_vars

\* A run that ended with status 1 on a store that passes the schema and
\* names a file that is not in the reports directory.
C7_Witness ==
    /\ pc = "exit" /\ exitCode = 1
    /\ metaState = "ok" /\ schemaState = "pass" /\ dirExists
    /\ \E i \in 1..Len(InputReports) :
          "filename" \in DOMAIN InputReports[i] /\ InputReports[i].filename = "r2.html"
    /\ "r2.html" \notin disk
    /\ indexWrites = <<>>

\* generate_index is about to run, is running or has run.
ReachedOrganizer == pc \in {"g_generate", "g_write"} \/ Len(indexWrites) > 0

\* C8 as claimed: a run that reaches the Organizer works on a store that
\* passes the Field Validator too: validate_report_fields,
\* validate_duplicates and validate_html_files would record no error.
C8_Original_FieldValidatorGates ==
    ReachedOrganizer
    => /\ schemaState # "fail"
       /\ Len(HtmlFileErrors(InputReports)) = 0
       /\ Len(FieldErrors(InputReports)) = 0
       /\ Len(DuplicateErrors(InputReports)) = 0

\* C8, amended: a run that reaches the Organizer has loaded the store, has
\* not failed the schema check (it passed, or was skipped for want of the
\* schema or the library) and has found the path of every record's filename
\* in the reports directory; the field and duplicate checks are no part of
\* the run.
C8_SchemaAndArtifactGate ==
    ReachedOrganizer
    => /\ metaState = "ok" /\ data # None
       /\ schemaState \in {"pass", "nofile", "nolib"}
       /\ \A i \in 1..Len(InputReports) :
             /\ "filename" \in DOMAIN InputReports[i]
             /\ dirExists
             /\ InputReports[i].filename \in disk \cup {""}

\* An index written from a store in which an id occurs twice.
C8_Witness ==
    /\ Len(indexWrites) > 0
    /\ Len(InputReports) = 2
    /\ InputReports[1].id = InputReports[2].id
    /\ schemaState = "pass"

----------------------------------------------------------------------------
(* Python strings as sequences of characters. *)

\* sub in s
Contains(s, sub) ==
    \E i \in 0..(Len(s) - Len(sub)) : SubSeq(s, i + 1, i + Len(sub)) = sub

\* s.startswith(prefix)
StartsWith(s, prefix) ==
    Len(prefix) <= Len(s) /\ SubSeq(s, 1, Len(prefix)) = prefix

\* s.replace(old, new) for a non-empty old: every occurrence, left to right,
\* without overlap.
Replace(s, old, new) ==
    LET n == Len(s)
        m == Len(old)
        from[i \in 1..(n + 1)] ==
            IF i > n THEN <<>>
            ELSE IF i + m - 1 <= n /\ SubSeq(s, i, i + m - 1) = old
            THEN new \o from[i + m]
            ELSE <<s[i]>> \o from[i + 1]
    IN  from[1]

Whitespace == {" ", "\n", "\t"}

\* s.strip()
Strip(s) ==
    LET ink == {i \in 1..Len(s) : s[i] \notin Whitespace}
    IN  IF ink = {} THEN <<>>
        ELSE SubSeq(s, CHOOSE i \in ink : \A j \in ink : i <= j,
                       CHOOSE i \in ink : \A j \in ink : j <= i)

\* s.split(): the maximal runs of non-whitespace characters, in order.
Split(s) ==
    LET n == Len(s)
        starts == {i \in 1..n : s[i] \notin Whitespace
                                 /\ (i = 1 \/ s[i - 1] \in Whitespace)}
        stop(i) == CHOOSE j \in i..n :
                      /\ \A k \in i..j : s[k] \notin Whitespace
                      /\ (j = n \/ s[j + 1] \in Whitespace)
    IN  [k \in 1..Cardinality(starts) |->
            LET i == CHOOSE x \in starts : Cardinality({y \in starts : y < x}) = k - 1
            IN  SubSeq(s, i, stop(i))]

LowerOf ==
    ("A" :> "a") @@ ("B" :> "b") @@ ("C" :> "c") @@ ("D" :> "d") @@ ("E" :> "e")
    @@ ("F" :> "f") @@ ("G" :> "g") @@ ("H" :> "h") @@ ("I" :> "i") @@ ("J" :> "j")
    @@ ("K" :> "k") @@ ("L" :> "l") @@ ("M" :> "m") @@ ("N" :> "n") @@ ("O" :> "o")
    @@ ("P" :> "p") @@ ("Q" :> "q") @@ ("R" :> "r") @@ ("S" :> "s") @@ ("T" :> "t")
    @@ ("U" :> "u") @@ ("V" :> "v") @@ ("W" :> "w") @@ ("X" :> "x") @@ ("Y" :> "y")
    @@ ("Z" :> "z")

\* s.lower()
Lower(s) == [i \in 1..Len(s) |-> IF s[i] \in DOMAIN LowerOf THEN LowerOf[s[i]] ELSE s[i]]

Digits == {"0", "1", "2", "3", "4", "5", "6", "7", "8", "9"}

\* Python's str <= str
StrLessEq(a, b) == a = b \/ StrLess(a, b)

----------------------------------------------------------------------------
(* scripts/migrate.py *)

DotHtml == <<".", "h", "t", "m", "l">>

\* extract_date_from_filename: the (\d{4}-\d{2}-\d{2})\.html$ at the end of
\* the name, else the fallback date.
ExtractDateFromFilename(filename) ==
    LET n == Len(filename)
        d == SubSeq(filename, n - 14, n - 5)
    IN  IF /\ n >= 15
           /\ SubSeq(filename, n - 4, n) = DotHtml
           /\ \A i \in {1, 2, 3, 4, 6, 7, 9, 10} : d[i] \in Digits
           /\ d[5] = "-" /\ d[8] = "-"
        THEN d
        ELSE D15

\* determine_category: the first rule that matches.
DetermineCategory(filename) ==
    LET lower == Lower(filename)
    IN  IF \/ Contains(lower, <<"s", "o", "l", "a", "n", "a">>)
           \/ StartsWith(filename, <<"S", "O", "L", "A", "N", "A", "-">>)
        THEN "solana"
        ELSE IF StartsWith(filename, <<"S", "L", "M", "-">>) \/ Contains(lower, <<"s", "l", "m">>)
        THEN "slm"
        ELSE IF \/ StartsWith(filename, <<"K", "Y", "A", "-">>)
                \/ StartsWith(filename, <<"X", "4", "0", "2", "-">>)
        THEN "kya"
        ELSE IF \/ StartsWith(filename, <<"V", "C", "-">>)
                \/ StartsWith(filename, <<"S", "E", "R", "I", "E", "S", "-", "A">>)
                \/ StartsWith(filename, <<"F", "U", "N", "D", "I", "N", "G", "-">>)
                \/ Contains(lower, <<"f", "u", "n", "d", "i", "n", "g">>)
                \/ Contains(lower, <<"i", "n", "v", "e", "s", "t", "o", "r">>)
                \/ Contains(lower, <<"b", "e", "n", "c", "h", "m", "a", "r", "k">>)
        THEN "vc"
        ELSE IF StartsWith(filename, <<"V", "E", "R", "T", "I", "C", "A", "L",
                "-">>) \/ Contains(lower, <<"v", "e", "r", "t", "i", "c", "a", "l">>)
        THEN "vertical"
        ELSE IF Contains(lower, <<"c", "r", "o", "s", "s", "-", "c", "h", "a", "i", "n">>)
        THEN "cross-chain"
        ELSE IF StartsWith(filename, <<"C", "E", "O", "-", "D", "E", "F", "I">>)
        THEN "vertical"
        ELSE IF StartsWith(filename, <<"C", "E", "O", "-", "R", "E", "S", "E", "A", "R", "C", "H">>)
        THEN (IF Contains(lower, <<"s", "o", "l", "a", "n", "a">>) \/ Contains(lower,
                <<"v", "i", "b", "e">>)
              THEN "solana"
              ELSE IF Contains(lower, <<"c", "r", "o", "s", "s", "-", "c", "h", "a", "i", "n">>)
              THEN "cross-chain"
              ELSE "solana")
        ELSE "slm"

\* The colour keywords a badge class may carry.
BadgeColors ==
    {<<"p", "r", "i", "m", "a", "r", "y">>, <<"p", "u", "r", "p", "l", "e">>, <<"b", "l",
            "u", "e">>, <<"g", "r", "e", "e", "n">>, <<"p", "i", "n", "k">>}

\* The class suffixes that set the version instead.
BadgeVersions == {<<"v", "1">>, <<"v", "2">>}

\* The badge texts that are version labels, not badges.
VersionTexts == {<<"v", "1", ".", "0">>, <<"v", "2", ".", "0">>, <<"v", "3", ".", "0">>}

ClassReportCard == <<"r", "e", "p", "o", "r", "t", "-", "c", "a", "r", "d">>

ClassFeatured == <<"f", "e", "a", "t", "u", "r", "e", "d">>

ClassBadge == <<"b", "a", "d", "g", "e">>

ClassBadgePrefix == <<"b", "a", "d", "g", "e", "-">>

\* ReportCardParser.__init__
NewParser ==
    [reports |-> <<>>, current_report |-> None, in_report_card |-> FALSE,
     in_title |-> FALSE, in_description |-> FALSE, in_badge |-> FALSE,
     current_badges |-> <<>>, current_badge_colors |-> <<>>]

\* `not current_report.get("description")`
NoDescription(report) ==
    ~Has(report, "description") \/ Len(report.description) = 0

\* The loop over the classes of a badge span: a colour is appended, a
\* version suffix sets the version of the current report.
BadgeClasses(p, classes) ==
    LET step(q, cls) ==
            IF StartsWith(cls, ClassBadgePrefix) /\ cls # ClassBadge
            THEN LET color == Replace(cls, ClassBadgePrefix, <<>>)
                 IN  IF color \in BadgeColors
                     THEN [q EXCEPT !.current_badge_colors = Append(@, color)]
                     ELSE IF color \in BadgeVersions
                     THEN [q EXCEPT !.current_report =
                              Put(@, "version", Replace(color, <<"v">>, <<>>) \o <<".", "0">>)]
                     ELSE q
            ELSE q
        after[k \in 0..Len(classes)] ==
            IF k = 0 THEN p ELSE step(after[k - 1], classes[k])
    IN  after[Len(classes)]

\* ReportCardParser.handle_starttag
HandleStarttag(p, tag, attrs) ==
    LET class == Get(attrs, "class", <<>>)
        href == Get(attrs, "href", <<>>)
        opened ==
            IF tag = "a" /\ Contains(class, ClassReportCard)
            THEN [p EXCEPT
                    !.in_report_card = TRUE,
                    !.current_report =
                        [filename |-> href,
                         id |-> Replace(href, DotHtml, <<>>),
                         featured |-> Contains(class, ClassFeatured),
                         badges |-> <<>>,
                         badge_colors |-> <<>>],
                    !.current_badges = <<>>,
                    !.current_badge_colors = <<>>]
            ELSE p
    IN  IF ~opened.in_report_card THEN opened
        ELSE IF tag = "h3" THEN [opened EXCEPT !.in_title = TRUE]
        ELSE IF tag = "p" /\ NoDescription(opened.current_report)
        THEN [opened EXCEPT !.in_description = TRUE]
        ELSE IF tag = "span" /\ Contains(class, ClassBadge)
        THEN BadgeClasses([opened EXCEPT !.in_badge = TRUE], Split(class))
        ELSE opened

\* current_badge_colors[:len(current_badges)]
TrimColors(colors, badges) == SubSeq(colors, 1, Min(Len(colors), Len(badges)))

\* ReportCardParser.handle_endtag
HandleEndtag(p, tag) ==
    LET closed ==
            IF tag = "a" /\ p.in_report_card
            THEN LET report == p.current_report
                     final == Put(Put(report, "badges", p.current_badges),
                                  "badge_colors",
                                  TrimColors(p.current_badge_colors, p.current_badges))
                 IN  [p EXCEPT
                        !.in_report_card = FALSE,
                        !.reports = IF report # None /\ Len(Get(report, "filename", <<>>)) # 0
                                    THEN Append(@, final) ELSE @,
                        !.current_report = None]
            ELSE p
    IN  [closed EXCEPT
            !.in_title = IF tag = "h3" THEN FALSE ELSE @,
            !.in_description = IF tag = "p" THEN FALSE ELSE @,
            !.in_badge = IF tag = "span" THEN FALSE ELSE @]

\* ReportCardParser.handle_data
HandleData(p, raw) ==
    LET text == Strip(raw)
    IN  IF Len(text) = 0 THEN p
        ELSE IF ~(p.in_report_card /\ p.current_report # None) THEN p
        ELSE IF p.in_title
        THEN [p EXCEPT !.current_report = Put(@, "title", text)]
        ELSE IF p.in_description /\ NoDescription(p.current_report)
        THEN [p EXCEPT !.current_report = Put(@, "description", text)]
        ELSE IF p.in_badge /\ text \notin VersionTexts
        THEN [p EXCEPT !.current_badges = Append(@, text)]
        ELSE p

\* A deduplication that keeps the last occurrence of a filename.
UniqueReports_KeepLast(reports) ==
    LET n == Len(reports)
        kept == SelectSeq(Positions(n),
                    LAMBDA i : \A j \in (i + 1)..n : reports[j].filename # reports[i].filename)
        derived(r) ==
            LET date == ExtractDateFromFilename(r.filename)
                dated == Put(r, "date", date)
                filed == IF Has(dated, "category") THEN dated
                         ELSE Put(dated, "category", DetermineCategory(r.filename))
            IN  IF Has(filed, "version") THEN filed
                ELSE Put(filed, "version", IF StrLessEq(date, D15) THEN <<"1", ".",
                        "0">> ELSE <<"2", ".", "0">>)
    IN  [k \in 1..Len(kept) |-> derived(reports[kept[k]])]

\* The loop of parse_index_html over parser.reports: the first record of
\* each filename, with its derived fields.
UniqueReports(reports) ==
    LET n == Len(reports)
        kept == SelectSeq(Positions(n),
                    LAMBDA i : \A j \in 1..(i - 1) : reports[j].filename # reports[i].filename)
        derived(r) ==
            LET date == ExtractDateFromFilename(r.filename)
                dated == Put(r, "date", date)
                filed == IF Has(dated, "category") THEN dated
                         ELSE Put(dated, "category", DetermineCategory(r.filename))
            IN  IF Has(filed, "version") THEN filed
                ELSE Put(filed, "version", IF StrLessEq(date, D15) THEN <<"1", ".",
                        "0">> ELSE <<"2", ".", "0">>)
    IN  [k \in 1..Len(kept) |-> derived(reports[kept[k]])]

\* create_reports_json: the list after the sort, the flags and the labels.
CreateReportsJson(reports) ==
    LET n == Len(reports)
        order == StableSort(Positions(n),
                    [x, y \in 1..n |-> StrLess(reports[y].date, reports[x].date)])
        sorted == Deref(reports, order)
        featured_count == Cardinality({i \in 1..n : ~FieldFalsy(sorted[i], "featured")})
        flagged == [i \in 1..n |->
                      IF featured_count < Featured3 /\ i <= Featured3
                      THEN Put(sorted[i], "featured", TRUE)
                      ELSE sorted[i]]
    IN  [i \in 1..n |->
            IF ~FieldFalsy(flagged[i], "featured")
            THEN Put(flagged[i], "featured_label",
                     IF i - 1 = 0 THEN LabelFirst ELSE LabelLater)
            ELSE flagged[i]]

\* parse_index_html: a new parser for the content of index.html.
MOpen ==
    /\ pc = "m_open"
    /\ parser' = NewParser
    /\ pc' = "m_feed"
    /\ UNCHANGED <<envVars, valVars, idxVars, cssVars, returned, data, exitCode,
                   indexEvents, fed, unique_reports, metadata>>

\* feed(): the next event is a start tag.
MStarttag ==
    /\ pc = "m_feed"
    /\ fed < Len(indexEvents)
    /\ indexEvents[fed + 1].type = "starttag"
    /\ parser' = HandleStarttag(parser, indexEvents[fed + 1].tag, indexEvents[fed + 1].attrs)
    /\ fed' = fed + 1
    /\ UNCHANGED <<envVars, valVars, idxVars, cssVars, returned, data, exitCode,
                   pc, indexEvents, unique_reports, metadata>>

\* feed(): the next event is an end tag.
MEndtag ==
    /\ pc = "m_feed"
    /\ fed < Len(indexEvents)
    /\ indexEvents[fed + 1].type = "endtag"
    /\ parser' = HandleEndtag(parser, indexEvents[fed + 1].tag)
    /\ fed' = fed + 1
    /\ UNCHANGED <<envVars, valVars, idxVars, cssVars, returned, data, exitCode,
                   pc, indexEvents, unique_reports, metadata>>

\* feed(): the next event is text.
MData ==
    /\ pc = "m_feed"
    /\ fed < Len(indexEvents)
    /\ indexEvents[fed + 1].type = "data"
    /\ parser' = HandleData(parser, indexEvents[fed + 1].data)
    /\ fed' = fed + 1
    /\ UNCHANGED <<envVars, valVars, idxVars, cssVars, returned, data, exitCode,
                   pc, indexEvents, unique_reports, metadata>>

\* parse_index_html after feed(): deduplicate and return.
MUnique ==
    /\ pc = "m_feed"
    /\ fed = Len(indexEvents)
    /\ unique_reports' = UniqueReports(parser.reports)
    /\ pc' = "m_create"
    /\ UNCHANGED <<envVars, valVars, idxVars, cssVars, returned, data, exitCode,
                   indexEvents, fed, parser, metadata>>

\* create_reports_json: the list main holds is sorted and its records are
\* flagged and labelled in place, then written to config/reports.json; main
\* then moves the artifacts and returns.
MCreate ==
    /\ pc = "m_create"
    /\ unique_reports' = CreateReportsJson(unique_reports)
    /\ metadata' = [reports |-> unique_reports']
    /\ pc' = "exit"
    /\ exitCode' = 0
    /\ UNCHANGED <<envVars, valVars, idxVars, cssVars, returned, data,
                   indexEvents, fed, parser>>

NextMigrate ==
    \/ MOpen
    \/ MStarttag
    \/ MEndtag
    \/ MData
    \/ MUnique
    \/ MCreate

----------------------------------------------------------------------------
(* The legacy index documents of the migration. *)

MaxCards == 4       \* report cards in a document of the card family
MaxElems == 3       \* elements inside the card of a document of the element family
MaxRawLen == 3      \* events inside the card of a document of the raw family

StartTag(tag, class, href) ==
    [type |-> "starttag", tag |-> tag, attrs |-> Opt("class", class) @@ Opt("href", href)]

EndTag(tag) == [type |-> "endtag", tag |-> tag]

Text(chars) == [type |-> "data", data |-> chars]

\* Artifact names with a date of their own, and one without.
Slm19 == <<"S", "L", "M", "-", "2", "0", "2", "6", "-", "0", "1", "-", "1", "9", ".", "h",
        "t", "m", "l">>

Kya17 == <<"K", "Y", "A", "-", "2", "0", "2", "6", "-", "0", "1", "-", "1", "7", ".", "h",
        "t", "m", "l">>

Vc17 == <<"V", "C", "-", "2", "0", "2", "6", "-", "0", "1", "-", "1", "7", ".", "h", "t", "m", "l">>

Solana == <<"s", "o", "l", "a", "n", "a", "-", "n", "o", "t", "e", "s", ".", "h", "t", "m", "l">>

Funding10 == <<"F", "U", "N", "D", "I", "N", "G", "-", "2", "0", "2", "6", "-", "0", "1",
        "-", "1", "0", ".", "h", "t", "m", "l">>

Hrefs == <<Slm19, Kya17, Vc17, Solana, Funding10>>

CardClass == <<"r", "e", "p", "o", "r", "t", "-", "c", "a", "r", "d">>

FeaturedCardClass == <<"r", "e", "p", "o", "r", "t", "-", "c", "a", "r", "d", " ", "f",
        "e", "a", "t", "u", "r", "e", "d">>

TextA == <<" ", " ", "A", "l", "p", "h", "a", " ">>

TextB == <<"B", "e", "t", "a">>

TextBlank == <<" ", "\n", " ">>

\* <a class="report-card [featured]" href=...>title</a>, the title in an
\* h3 when there is one.
Card(href, class, title) ==
    <<StartTag("a", <<class>>, <<href>>)>>
    \o (IF Len(title) = 0 THEN <<>>
        ELSE <<StartTag("h3", <<>>, <<>>), Text(title[1]), EndTag("h3")>>)
    \o <<EndTag("a")>>

\* <tag class=...>chunk<br>chunk...</tag>: an element whose text comes in
\* chunks.
Element(tag, class, chunks) ==
    <<StartTag(tag, class, <<>>)>>
    \o [i \in 1..Len(chunks) |-> Text(chunks[i])]
    \o <<EndTag(tag)>>

ElementChoices ==
    {Element(t[1], t[2], c) :
        t \in {<<"h3", <<>>>>, <<"p", <<>>>>,
               <<"span", <<<<"b", "a", "d", "g", "e", " ", "b", "a", "d", "g", "e", "-",
                       "b", "l", "u", "e">>>>>>, <<"span", <<<<"b", "a", "d", "g", "e">>>>>>},
        c \in {<<>>, <<TextA>>, <<TextB, TextA>>}}

RawChoices ==
    {StartTag("h3", <<>>, <<>>), EndTag("h3"),
     StartTag("span", <<<<"b", "a", "d", "g", "e", " ", "b", "a", "d", "g", "e", "-", "v",
             "2", " ", "b", "a", "d", "g", "e", "-", "p", "i", "n", "k">>>>, <<>>),
     StartTag("span", <<<<"b", "a", "d", "g", "e", "-", "t", "e", "a", "l">>>>, <<>>),
             EndTag("span"),
     StartTag("a", <<CardClass>>, <<>>), EndTag("a"),
     Text(TextB), Text(TextBlank), Text(<<"v", "2", ".", "0">>)}

\* Documents of cards that repeat hrefs and differ in the featured class and
\* the title; documents of one card around closed elements with chunked
\* text; documents of one card around headings, badge spans, anchors and
\* text in any order, closed or not.
IndexDocuments ==
    \/ \E k \in 0..MaxCards :
          \E hs \in [1..k -> 1..4] : \E fs \in [1..k -> BOOLEAN] :
             \E ts \in {[i \in 1..k |-> <<>>],
                     [i \in 1..k |-> IF i = k THEN <<TextB>> ELSE <<TextA>>]} :
                indexEvents =
                    Concat([i \in 1..k |->
                              Card(Hrefs[hs[i]],
                                   IF fs[i] THEN FeaturedCardClass ELSE CardClass,
                                   ts[i])], k)
    \/ \E k \in 1..MaxElems : \E es \in [1..k -> ElementChoices] :
          indexEvents =
              <<StartTag("a", <<CardClass>>, <<Funding10>>)>>
              \o Concat(es, k) \o <<EndTag("a")>>
    \/ \E k \in 1..MaxRawLen : \E es \in [1..k -> RawChoices] :
          \E closed \in BOOLEAN :
             indexEvents =
                 <<StartTag("a", <<CardClass>>, <<Funding10>>)>> \o es
                 \o (IF closed THEN <<EndTag("a")>> ELSE <<>>)

InitMigrate ==
    /\ IndexDocuments
    /\ fed = 0
    /\ parser = None
    /\ unique_reports = <<>>
    /\ metadata = None
    /\ Env("absent", EmptyDict, "nofile", FALSE, {})
    /\ InitProcess("m_open")
    /\ IdleStyles
    /\ IdleCalls

SpecMigrate == InitMigrate /\ [][NextMigrate]_vars

----------------------------------------------------------------------------
(* Claims about the migration. *)

\* The records the parser appended, in encounter order.
ParsedReports == parser.reports

\* C12: what parse_index_html returns holds exactly one record per distinct
\* filename of the parsed cards; the k-th returned record is the k-th first
\* occurrence of a filename in encounter order, with every field the parser
\* gave it; so a card that is repeated yields one record.
C12_FirstOccurrencePerFilename ==
    pc = "m_create"
    => LET rs == ParsedReports
           n == Len(rs)
           firsts == {i \in 1..n : \A j \in 1..n : j < i => rs[j].filename # rs[i].filename}
       IN  /\ Len(unique_reports) = Cardinality({rs[i].filename : i \in 1..n})
           /\ Len(unique_reports) = Cardinality(firsts)
           /\ \A k \in 1..Len(unique_reports) :
                 \A f \in DOMAIN rs[Nth(firsts, k)] :
                    /\ f \in DOMAIN unique_reports[k]
                    /\ unique_reports[k][f] = rs[Nth(firsts, k)][f]
           /\ \A k, l \in 1..Len(unique_reports) :
                 k # l => unique_reports[k].filename # unique_reports[l].filename

\* Four cards: the first twice, then another report, then the first report
\* again under the featured class; two records are returned.
C12_Witness ==
    /\ pc = "m_create"
    /\ Len(ParsedReports) = 4
    /\ ParsedReports[1] = ParsedReports[2]
    /\ ParsedReports[3].filename # ParsedReports[1].filename
    /\ ParsedReports[4].filename = ParsedReports[1].filename
    /\ ParsedReports[4].featured # ParsedReports[1].featured
    /\ Len(unique_reports) = 2

\* The records create_reports_json wrote, in the order it wrote them.
WrittenReports == metadata.reports

\* The records create_reports_json was given that already had the featured
\* flag: the first occurrences, in the parsed cards, of a filename under the
\* featured class.
PreFlagged ==
    {i \in 1..Len(ParsedReports) :
        /\ ParsedReports[i].featured
        /\ \A j \in 1..(i - 1) : ParsedReports[j].filename # ParsedReports[i].filename}

\* C13: after create_reports_json the records are in descending date order;
\* if fewer than 3 were flagged, the first 3 are flagged; the first flagged
\* record in that order is labelled "NEW - Latest Research" and every later
\* flagged record "Key Document".
C13_FirstFlaggedIsNew ==
    (pc = "exit" /\ metadata # None)
    => LET rs == WrittenReports
           n == Len(rs)
           flagged == {i \in 1..n : rs[i].featured}
       IN  /\ \A i, j \in 1..n : i < j => ~StrLess(rs[i].date, rs[j].date)
           /\ Cardinality(PreFlagged) < 3 => \A i \in 1..Min(3, n) : rs[i].featured
           /\ \A i \in flagged :
                 /\ "featured_label" \in DOMAIN rs[i]
                 /\ rs[i].featured_label =
                       (IF \A j \in flagged : i <= j
                        THEN "NEW - Latest Research" ELSE "Key Document")

\* Whether the i-th event opens a report card.
OpensCard(i) ==
    /\ indexEvents[i].type = "starttag"
    /\ indexEvents[i].tag = "a"
    /\ "class" \in DOMAIN indexEvents[i].attrs
    /\ Contains(indexEvents[i].attrs.class, <<"r", "e", "p", "o", "r", "t", "-", "c", "a",
            "r", "d">>)

IsStart(i, tag) == indexEvents[i].type = "starttag" /\ indexEvents[i].tag = tag

IsEnd(i, tag) == indexEvents[i].type = "endtag" /\ indexEvents[i].tag = tag

\* The event just handled closed a report card (an </a> with a card open and
\* no </a> since): the card's anchor is the event CardStart.
CardClosed ==
    /\ pc = "m_feed" /\ fed > 0
    /\ IsEnd(fed, "a")
    /\ \E o \in 1..(fed - 1) :
          OpensCard(o) /\ \A i \in (o + 1)..(fed - 1) : ~IsEnd(i, "a")

CardStart ==
    CHOOSE o \in 1..(fed - 1) :
        OpensCard(o) /\ \A i \in (o + 1)..(fed - 1) : ~OpensCard(i)

\* The events with text (not only whitespace) inside the first `tag`
\* element of the card just closed: from its start tag to its end tag, or
\* to the end of the card when it is not closed.
TextsOfFirst(tag) ==
    LET starts == {i \in (CardStart + 1)..(fed - 1) : IsStart(i, tag)}
        h == CHOOSE i \in starts : \A j \in starts : i <= j
        ends == {i \in (h + 1)..(fed - 1) : IsEnd(i, tag)}
        e == IF ends = {} THEN fed ELSE CHOOSE i \in ends : \A j \in ends : i <= j
    IN  IF starts = {} THEN {}
        ELSE {i \in (h + 1)..(e - 1) :
                /\ indexEvents[i].type = "data"
                /\ \E k \in 1..Len(indexEvents[i].data) :
                      indexEvents[i].data[k] \notin {" ", "\n", "\t"}}

\* The text, without the surrounding whitespace, of the i-th event.
TextAt(i) ==
    LET d == indexEvents[i].data
        ink == {k \in 1..Len(d) : d[k] \notin {" ", "\n", "\t"}}
    IN  SubSeq(d, CHOOSE k \in ink : \A l \in ink : k <= l,
                  CHOOSE k \in ink : \A l \in ink : l <= k)

\* The record of the card just closed, when it was appended.
Finalized == parser.reports[Len(parser.reports)]

\* C15: when a card with a filename is closed, the title of its record is
\* the first text inside the first h3 element of the card and its
\* description the first text inside the first p element of the card: no
\* later h3, p or text replaces them.
C15_FirstHeadingFirstParagraph ==
    (CardClosed /\ Len(Get(indexEvents[CardStart].attrs, "href", <<>>)) > 0)
    => LET h3 == TextsOfFirst("h3")
           par == TextsOfFirst("p")
       IN  /\ h3 # {}
              => /\ "title" \in DOMAIN Finalized
                 /\ Finalized.title = TextAt(CHOOSE i \in h3 : \A j \in h3 : i <= j)
           /\ par # {}
              => /\ "description" \in DOMAIN Finalized
                 /\ Finalized.description = TextAt(CHOOSE i \in par : \A j \in par : i <= j)

\* The events handled so far that closed a report card, and among them
\* those whose card has a non-empty href.
Closings ==
    {c \in 1..fed :
        /\ IsEnd(c, "a")
        /\ \E o \in 1..(c - 1) : OpensCard(o) /\ \A i \in (o + 1)..(c - 1) : ~IsEnd(i, "a")}

HrefOfClosing(c) ==
    LET o == CHOOSE x \in 1..(c - 1) :
                OpensCard(x) /\ \A i \in (x + 1)..(c - 1) : ~OpensCard(i)
    IN  IF "href" \in DOMAIN indexEvents[o].attrs THEN indexEvents[o].attrs.href ELSE <<>>

\* C16: the parser's list holds one record per closed card with a non-empty
\* filename, in the order the cards were closed, and none for a card
\* without one; and in every appended record the colour list is as long as
\* the badge list.
C16_AppendedWithParallelColors ==
    pc = "m_feed"
    => LET named == {c \in Closings : Len(HrefOfClosing(c)) > 0}
       IN  /\ Len(parser.reports) = Cardinality(named)
           /\ \A k \in 1..Len(parser.reports) :
                 /\ parser.reports[k].filename = HrefOfClosing(Nth(named, k))
                 /\ Len(parser.reports[k].badge_colors) = Len(parser.reports[k].badges)

----------------------------------------------------------------------------
(* add-mobile-styles.py *)
(*                                                                         *)
(* The content of an HTML file is a sequence of pieces: each tag the       *)
(* patterns of update_reports can match is a piece of its own, and so is   *)
(* the inserted stylesheet block; other markup and text pieces hold none   *)
(* of the searched substrings.                                             *)

\* The marker update_reports looks for.
Sentinel == "/* ===== MOBILE RESPONSIVE ====="

\* REPORT_MOBILE_CSS + '\n    ': it begins with the marker comment.
ReportMobileCss == "/* ===== MOBILE RESPONSIVE ===== */ @media (max-width: 768px) { ... }"

\* The pieces in which the marker occurs.
SentinelPieces == {Sentinel, ReportMobileCss}

TableOpen == "<table>"

TableOpenAttrs == "<table class=\"data\">"

\* The pieces <table[^>]*> matches.
TableOpenPieces == {TableOpen, TableOpenAttrs}

TableClose == "</table>"

StyleClose == "</style>"

WrapperOpen == "<div class=\"table-wrapper\">"

WrapperClose == "</div>"

Paragraph == "<p>text</p>"

IndexHtml == <<"i", "n", "d", "e", "x", ".", "h", "t", "m", "l">>

\* '/* ===== MOBILE RESPONSIVE =====' in content
HasSentinel(content) == \E i \in 1..Len(content) : content[i] \in SentinelPieces

\* The body of update_reports' loop for one report file: skip on the
\* marker, else the two re.sub and the replace of every </style>.
InjectStyles(content) ==
    LET piece(x) ==
            IF x \in TableOpenPieces THEN <<WrapperOpen, x>>
            ELSE IF x = TableClose THEN <<x, WrapperClose>>
            ELSE IF x = StyleClose THEN <<ReportMobileCss, StyleClose>>
            ELSE <<x>>
    IN  IF HasSentinel(content) THEN content
        ELSE Concat([i \in 1..Len(content) |-> piece(content[i])], Len(content))

MaxRuns == 2        \* runs of update_reports
MaxPieces == 4      \* pieces in the content of a report artifact

\* update_reports: every *.html file whose path does not contain
\* "index.html" is rewritten.
UpdateReports ==
    /\ pc = "s_update"
    /\ Len(snapshots) <= MaxRuns
    /\ site' = [f \in DOMAIN site |->
                  IF Contains(f, IndexHtml) THEN site[f] ELSE InjectStyles(site[f])]
    /\ snapshots' = Append(snapshots, site')
    /\ UNCHANGED <<envVars, valVars, idxVars, migVars, returned, pc, data, exitCode>>

NextStyles == UpdateReports

PieceChoices == {TableOpen, TableOpenAttrs, TableClose, StyleClose, Paragraph, Sentinel}

\* The index document, with a table and a stylesheet, and one report
\* artifact of any pieces.
InitStyles ==
    /\ \E k \in 0..MaxPieces : \E content \in [1..k -> PieceChoices] :
          site = (IndexHtml :> <<TableOpen, TableClose, StyleClose>>) @@ (Slm19 :> content)
    /\ snapshots = <<site>>
    /\ Env("absent", EmptyDict, "nofile", FALSE, {})
    /\ InitProcess("s_update")
    /\ IdleMigrate
    /\ IdleCalls

SpecStyles == InitStyles /\ [][NextStyles]_vars

\* C14: an artifact that holds the marker is left as it was, and for every
\* artifact a second run of update_reports leaves what the first run left.
C14_SecondRunChangesNothing ==
    /\ \A k \in 2..Len(snapshots) : \A f \in DOMAIN site :
          HasSentinel(snapshots[k - 1][f]) => snapshots[k][f] = snapshots[k - 1][f]
    /\ Len(snapshots) >= 3 => snapshots[3] = snapshots[2]

----------------------------------------------------------------------------
(* get_featured_reports called again on the list it has changed. *)

MaxCalls == 2       \* calls of get_featured_reports on one list

\* One call of get_featured_reports on the loaded list: the records it
\* returns (by position and by value) and the list as the call leaves it.
FCall ==
    /\ pc = "f_call"
    /\ Len(returned) < MaxCalls
    /\ LET got == GetFeaturedReports(ReportsOf(data))
       IN  /\ data' = Put(data, "reports", got.reports)
           /\ returned' = Append(returned,
                             [positions |-> got.featured,
                              records |-> Deref(got.reports, got.featured)])
    /\ UNCHANGED <<envVars, valVars, idxVars, migVars, cssVars, pc, exitCode>>

NextFeatured == FCall

\* A loaded list of records that differ in flag, label and date.
InitFeatured ==
    /\ \E k \in 0..MaxFeatLen : \E c \in [1..k -> FeaturedChoices] :
          Env("ok", Doc(Over(c), DefaultMapping), "pass", TRUE, AllArtifacts)
    /\ pc = "f_call"
    /\ data = metaDoc
    /\ errors = <<>> /\ warnings = <<>> /\ reported = <<>>
    /\ exitCode = -1
    /\ featured = <<>> /\ byCategory = <<>> /\ byDate = <<>>
    /\ html = EmptyDict /\ indexWrites = <<>>
    /\ IdleMigrate /\ IdleStyles /\ IdleCalls

SpecFeatured == InitFeatured /\ [][NextFeatured]_vars

====
